---- MODULE Spec2Model ----
(***************************************************************************)
(* Model of aalr: robust spline smoothing by iterative re-weighting        *)
(* (SplineModel), the outlier-run scanner (mask_index), the Hamming        *)
(* distance (dist) and the knot-shift ensemble (knot_shift_aggregate).     *)
(*                                                                         *)
(* Masks are sequences of weights 0/1 (numpy float arrays holding 0.0 and  *)
(* 1.0); a weight is "true" when it is non-zero, as numpy's conversion to  *)
(* bool does.  Python indices are 0-based, TLA+ sequences 1-based: the     *)
(* element at Python index i is s[i + 1].                                  *)
(***************************************************************************)
EXTENDS Integers, Sequences, FiniteSets, TLC

\* ------------------------------------------------------------------------
\* Bounds of the model
\* ------------------------------------------------------------------------

\* Longest mask handed to the stand-alone run of mask_index.
MaxLen == 5

\* ------------------------------------------------------------------------
\* Generic helpers
\* ------------------------------------------------------------------------

\* np.asarray(x, dtype=bool) on one weight.
AsBool(x) == x # 0

\* The function f on 1..n as a tuple.
Tup(f) == f \o <<>>

\* All sequences over S of length at most n.
SeqsUpTo(S, n) == UNION {[1..k -> S] : k \in 0..n}

\* ------------------------------------------------------------------------
\* Numbers
\* ------------------------------------------------------------------------

\* Bits of the significand of the model's binary floating point (53 in an
\* IEEE double).  Times, knots and the aggregate's scale factors are floats.
MantBits == 10

\* Times are counted in units of 2^-FracBits; FracBits > MantBits lets a
\* proximity factor below half an ulp of 1.0 be represented.
FracBits == MantBits + 1

RECURSIVE Pow2(_)
Pow2(k) == IF k = 0 THEN 1 ELSE 2 * Pow2(k - 1)

\* The float 1.0.
One == Pow2(FracBits)

Abs(x) == IF x < 0 THEN -x ELSE x

Max(a, b) == IF a >= b THEN a ELSE b

\* Python's a // b (floor division, any non-zero b).
PyFloorDiv(a, b) ==
    IF b > 0 THEN
        IF a >= 0 THEN a \div b ELSE -((-a + b - 1) \div b)
    ELSE
        IF a >= 0 THEN -((a + (-b) - 1) \div (-b)) ELSE (-a) \div (-b)

\* num / den rounded to the nearest integer, ties to even (num >= 0, den > 0).
RoundHalfEven(num, den) ==
    LET q == num \div den
        r == num % den
    IN  IF 2 * r < den THEN q
        ELSE IF 2 * r > den THEN q + 1
        ELSE q + (q % 2)

RECURSIVE FlScale(_, _, _)
\* The spacing s (a power of two, in units) of the floats around num / den.
FlScale(num, den, s) ==
    IF num < Pow2(MantBits) * s * den THEN s ELSE FlScale(num, den, 2 * s)

\* The float nearest to num / den units (den > 0): round to nearest, ties to
\* even, with MantBits significant bits.
FlRat(num, den) ==
    LET a == Abs(num)
        s == FlScale(a, den, 1)
        m == RoundHalfEven(a, den * s) * s
    IN  IF num < 0 THEN -m ELSE m

FlSub(a, b) == FlRat(a - b, 1)
FlAdd(a, b) == FlRat(a + b, 1)
\* Product of two floats.
FlMul(a, b) == FlRat(a * b, One)
\* Product of a Python int and a float.
FlIntMul(i, a) == FlRat(i * a, 1)
\* Quotient of a float by a Python int.
FlIntDiv(a, d) == FlRat(a, d)

\* Rationals <<numerator, denominator>> with a positive denominator: the
\* values the fit kernel returns and the residual statistics.
RLe(a, b) == a[1] * b[2] <= b[1] * a[2]
RLt(a, b) == a[1] * b[2] < b[1] * a[2]
RAbs(a) == <<Abs(a[1]), a[2]>>
\* integer y minus rational a
RIntMinus(y, a) == <<y * a[2] - a[1], a[2]>>
RMean2(a, b) == <<a[1] * b[2] + b[1] * a[2], 2 * a[2] * b[2]>>

\* ------------------------------------------------------------------------
\* util.mask_index
\* ------------------------------------------------------------------------

\* The variant of Stream that forgets the sentinel.
StreamNoSentinel(warray) == warray

\* np.concatenate((warray, [1])): the input padded with a true sentinel.
Stream(warray) == Append(warray, 1)

\* The scanner's state before the first element.
MiStart == [state |-> "want_0", thisres |-> <<>>, res |-> <<>>]

RECURSIVE MiLoop(_, _, _, _, _, _)
\* The for loop (lines 28-46) over the stream elements at Python indices
\* i .. stop - 1, entered with the given state, thisres and res.
MiLoop(stream, i, stop, state, thisres, res) ==
    IF i >= stop THEN [state |-> state, thisres |-> thisres, res |-> res]
    ELSE CASE AsBool(stream[i + 1]) /\ state = "want_0" ->
                MiLoop(stream, i + 1, stop, state, thisres, res)
           [] AsBool(stream[i + 1]) /\ state = "want_1" ->
                MiLoop(stream, i + 1, stop, "want_0", <<>>,
                       Append(res, Append(thisres, i)))
           [] ~AsBool(stream[i + 1]) /\ state = "want_0" ->
                MiLoop(stream, i + 1, stop, "want_1", Append(thisres, i), res)
           [] ~AsBool(stream[i + 1]) /\ state = "want_1" ->
                MiLoop(stream, i + 1, stop, state, thisres, res)

\* One iteration of the for loop, at Python index i.
MiTrans(stream, st, i) ==
    MiLoop(stream, i, i + 1, st.state, st.thisres, st.res)

\* mask_index(warray): the list of [start, end] of the masked-out runs.
MaskIndex(warray) ==
    MiLoop(Stream(warray), 0, Len(Stream(warray)), "want_0", <<>>, <<>>).res

\* ------------------------------------------------------------------------
\* util.dist
\* ------------------------------------------------------------------------

RECURSIVE SumRange(_, _, _)
\* f[lo] + ... + f[hi], summed by halves
SumRange(f, lo, hi) ==
    IF lo > hi THEN 0
    ELSE IF lo = hi THEN f[lo]
    ELSE LET mid == (lo + hi) \div 2
         IN  SumRange(f, lo, mid) + SumRange(f, mid + 1, hi)

\* f[1] + ... + f[k]
SumTo(f, k) == SumRange(f, 1, k)

\* A variant that counts the positions where either mask is set.
DistOr(x, y) ==
    SumTo([i \in 1..Len(x) |-> IF AsBool(x[i]) \/ AsBool(y[i]) THEN 1 ELSE 0],
          Len(x))

\* dist(x, y): np.sum of the element-wise xor of the two masks as bools.
Dist(x, y) ==
    SumTo([i \in 1..Len(x) |-> IF AsBool(x[i]) # AsBool(y[i]) THEN 1 ELSE 0],
          Len(x))

\* ------------------------------------------------------------------------
\* The fit kernel (scipy's LSQUnivariateSpline), an external collaborator.
\* It is modelled by the weighted least-squares fit of a piecewise-constant
\* spline on the same knots: on each knot interval the fitted value is the
\* weighted mean of the samples in it.  It raises when a knot is not strictly
\* inside the domain, when the knots do not ascend strictly, or when the
\* normal equations are singular (an interval without any weight).
\* ------------------------------------------------------------------------

KnotsValid(t, knots) ==
    /\ \A k \in 1..Len(knots) : t[1] < knots[k] /\ knots[k] < t[Len(t)]
    /\ \A k \in 1..(Len(knots) - 1) : knots[k] < knots[k + 1]

\* The knot interval (1 .. Len(knots) + 1) the time tq falls in.
SegOf(knots, tq) == 1 + Cardinality({k \in 1..Len(knots) : knots[k] <= tq})

LSQUnivariateSpline(t, y, knots, w) ==
    LET n == Len(t)
        seg == Tup([i \in 1..n |-> SegOf(knots, t[i])])
        sw(s) == SumTo([i \in 1..n |-> IF seg[i] = s THEN w[i] ELSE 0], n)
        sy(s) == SumTo([i \in 1..n |-> IF seg[i] = s THEN w[i] * y[i] ELSE 0], n)
    IN  IF ~KnotsValid(t, knots) THEN [ok |-> FALSE, spr |-> <<>>]
        ELSE IF \E s \in 1..(Len(knots) + 1) : sw(s) = 0
             THEN [ok |-> FALSE, spr |-> <<>>]
        ELSE [ok |-> TRUE,
              spr |-> [knots |-> knots,
                       coef |-> Tup([s \in 1..(Len(knots) + 1) |->
                                       <<sy(s), sw(s)>>])]]

\* SplineModel.__call__ on a sequence of times: the spline's values there.
Call(spr, tq) ==
    Tup([i \in 1..Len(tq) |-> spr.coef[SegOf(spr.knots, tq[i])]])

\* ------------------------------------------------------------------------
\* SplineModel
\*
\* heap is the store of numpy weight arrays: a model's w is a reference
\* (an index into heap), so that two models may share one array.
\* A model is a record
\*   t, y        the time series
\*   knots       the internal knots
\*   w           reference to the weight array
\*   spr         the fitted spline (_spr)
\*   self_pred   the predictions at t
\*   stats_dirty the flag _stats_dirty
\*   rmad        the cached median absolute residual
\*   kwargs      _kwargs_save
\* ------------------------------------------------------------------------

\* nknots: int = 23
DefaultNKnots == 23

\* ub: float = 4, lb: float = -10
DefaultUb == 4
DefaultLb == -10

NoOverride == [given |-> FALSE, knots |-> <<>>]
Override(knots) == [given |-> TRUE, knots |-> knots]
NoWeights == 0

RmadUnset == [kind |-> "unset", val |-> <<0, 1>>]
RmadNaN == [kind |-> "nan", val |-> <<0, 1>>]
RmadNum(v) == [kind |-> "num", val |-> v]

NoModel ==
    [t |-> <<>>, y |-> <<>>, knots |-> <<>>, w |-> 0, spr |-> <<>>,
     self_pred |-> <<>>, stats_dirty |-> TRUE, rmad |-> RmadUnset,
     kwargs |-> <<>>]

Ok(heap, m) == [ok |-> TRUE, err |-> "", heap |-> heap, m |-> m]
Raise(err, heap, m) == [ok |-> FALSE, err |-> err, heap |-> heap, m |-> m]

\* The Python indices i, i + step, ... inside 0 .. n - 1 of a slice.
PySliceIdx(n, i, step) ==
    LET count == IF i < 0 \/ i >= n THEN 0
                 ELSE IF step > 0 THEN (n - 1 - i) \div step + 1
                 ELSE i \div (-step) + 1
    IN  Tup([k \in 1..count |-> i + (k - 1) * step])

\* t[start::step] for a non-zero step.
PySlice(t, start, step) ==
    LET n == Len(t)
        first == IF step < 0 /\ start >= n THEN n - 1 ELSE start
        idx == PySliceIdx(n, first, step)
    IN  Tup([k \in 1..Len(idx) |-> t[idx[k] + 1]])

\* The variant of ReplaceMask that, once the model holds an array, writes the
\* new weights into that array (self.w[:] = w) instead of rebinding self.w.
ReplaceMaskInPlace(heap, m, wref) ==
    LET h2 == IF m.w = 0 THEN heap ELSE [heap EXCEPT ![m.w] = heap[wref]]
        ref == IF m.w = 0 THEN wref ELSE m.w
        fit == LSQUnivariateSpline(m.t, m.y, m.knots, h2[ref])
    IN  IF Len(heap[wref]) # Len(m.t) THEN Raise("AssertionError", heap, m)
        ELSE IF ~fit.ok THEN Raise("FitError", h2, [m EXCEPT !.w = ref])
        ELSE Ok(h2, [m EXCEPT !.w = ref,
                              !.spr = fit.spr,
                              !.self_pred = Call(fit.spr, m.t),
                              !.stats_dirty = TRUE])

\* SplineModel.replace_mask(w), w being the array heap[wref].
ReplaceMask(heap, m, wref) ==
    LET fit == LSQUnivariateSpline(m.t, m.y, m.knots, heap[wref])
    IN  IF Len(heap[wref]) # Len(m.t) THEN Raise("AssertionError", heap, m)
        ELSE IF ~fit.ok THEN Raise("FitError", heap, [m EXCEPT !.w = wref])
        ELSE Ok(heap, [m EXCEPT !.w = wref,
                                !.spr = fit.spr,
                                !.self_pred = Call(fit.spr, m.t),
                                !.stats_dirty = TRUE])

\* SplineModel.__init__(t, y, nknots, knots_override, w, **spline_args);
\* wref = NoWeights stands for w=None.  When it raises no model exists.
SplineModel(heap, t, y, nknots, knots_override, wref, kwargs) ==
    IF Len(t) # Len(y) THEN Raise("AssertionError", heap, NoModel)
    ELSE IF nknots = 0 THEN Raise("ZeroDivisionError", heap, NoModel)
    ELSE
    LET N == PyFloorDiv(Len(y), nknots)
    IN  IF ~knots_override.given /\ N = 0 THEN Raise("ValueError", heap, NoModel)
        ELSE
        LET knots == IF knots_override.given THEN knots_override.knots
                     ELSE PySlice(t, Max(PyFloorDiv(N, 2), 1), N)
            h2 == IF wref = NoWeights
                  THEN Append(heap, Tup([i \in 1..Len(t) |-> 1]))
                  ELSE heap
            winit == IF wref = NoWeights THEN Len(h2) ELSE wref
            m0 == [NoModel EXCEPT !.t = t, !.y = y, !.knots = knots,
                                  !.kwargs = [kwargs EXCEPT !.k = 3]]
            r == ReplaceMask(h2, m0, winit)
        IN  IF r.ok THEN r ELSE Raise(r.err, r.heap, NoModel)

\* The k-th smallest (k = 1 ..) of a non-empty sequence of rationals.
KthSmallest(rs, k) ==
    LET below(i) == Cardinality({j \in 1..Len(rs) : RLt(rs[j], rs[i])})
        upto(i) == Cardinality({j \in 1..Len(rs) : RLe(rs[j], rs[i])})
        i == CHOOSE i \in 1..Len(rs) : below(i) < k /\ k <= upto(i)
    IN  rs[i]

\* np.nanmedian of a sequence of rationals (NaN when it is empty).
NanMedian(rs) ==
    LET c == Len(rs)
    IN  IF c = 0 THEN RmadNaN
        ELSE IF c % 2 = 1 THEN RmadNum(KthSmallest(rs, (c + 1) \div 2))
        ELSE RmadNum(RMean2(KthSmallest(rs, c \div 2),
                            KthSmallest(rs, c \div 2 + 1)))

\* xs[bm]: the elements of xs at the positions where the mask w is true.
Compress(xs, w) ==
    LET pos == SelectSeq(Tup([i \in 1..Len(xs) |-> i]),
                         LAMBDA i : AsBool(w[i]))
    IN  Tup([k \in 1..Len(pos) |-> xs[pos[k]]])

\* The statistic of lines 117-119: the median absolute residual over the
\* inliers of the committed mask.
ResidualStat(heap, m) ==
    LET absres == Tup([i \in 1..Len(m.t) |->
                         RAbs(RIntMinus(m.y[i], m.self_pred[i]))])
    IN  NanMedian(Compress(absres, heap[m.w]))

\* Lines 115-120: the model with its statistic recomputed when dirty.
StatsOf(heap, m) ==
    IF m.stats_dirty
    THEN [m EXCEPT !.rmad = ResidualStat(heap, m), !.stats_dirty = FALSE]
    ELSE m

\* lb <= (y - pred) / rmad <= ub in floating point: a division by a zero or
\* NaN statistic gives NaN or an infinity, which fails the test.
InBand(y, pred, rmad, ub, lb) ==
    LET dev == RIntMinus(y, pred)
        v == rmad.val
    IN  /\ rmad.kind = "num"
        /\ v[1] # 0
        /\ lb * v[1] * dev[2] <= dev[1] * v[2]
        /\ dev[1] * v[2] <= ub * v[1] * dev[2]

\* SplineModel.inlier_predicate(t, y, ub, lb): the model after the call and
\* the mask it returns (1 for an inlier).
InlierPredicate(heap, m, tq, yq, ub, lb) ==
    LET m2 == StatsOf(heap, m)
        preds == Call(m2.spr, tq)
    IN  [m |-> m2,
         mask |-> Tup([i \in 1..Len(tq) |->
                     IF InBand(yq[i], preds[i], m2.rmad, ub, lb) THEN 1 ELSE 0])]

\* The variant of KnotSkipped with closed spans.
KnotSkippedClosed(t, midx, knot) ==
    \E k \in 1..Len(midx) : t[midx[k][1] + 1] <= knot /\ knot <= t[midx[k][2]]

\* Lines 175-181: skip, the knot lies strictly inside the span of a masked-out run.
KnotSkipped(t, midx, knot) ==
    \E k \in 1..Len(midx) : t[midx[k][1] + 1] < knot /\ knot < t[midx[k][2]]

\* Lines 172-183: the knots kept, in their order.
KeepKnots(t, midx, knots) ==
    SelectSeq(knots, LAMBDA knot : ~KnotSkipped(t, midx, knot))

\* SplineModel.cure_knots(): the new instance (self is not changed).
CureKnots(heap, m) ==
    SplineModel(heap, m.t, m.y, DefaultNKnots,
                Override(KeepKnots(m.t, MaskIndex(heap[m.w]), m.knots)),
                m.w, m.kwargs)

\* The variant of WhileCond that stops one pass earlier.
WhileCondStrict(niter, maxiter) == niter < maxiter

\* Line 155: the loop condition of refine.
WhileCond(niter, maxiter) == niter <= maxiter

\* The variant of IsConverged with a strict comparison.
IsConvergedStrict(dxor, target_d) == dxor < target_d

\* Line 158: the convergence test of refine.
IsConverged(dxor, target_d) == dxor <= target_d

\* The variant of ConvergedExit that installs the candidate before leaving.
ConvergedExitCommit(heap, m, cand) ==
    LET h2 == Append(heap, cand)
        r == ReplaceMask(h2, m, Len(h2))
    IN  [heap |-> r.heap, m |-> r.m]

\* Lines 158-160: on convergence the loop is left; the candidate mask is
\* dropped and neither the mask nor the fit of the model is touched.
ConvergedExit(heap, m, cand) == [heap |-> heap, m |-> m]

\* Lines 152-153 and 159, 164-165: the FitResult namedtuple.
FitResult(status, message, niter, dfinal) ==
    [status |-> status, message |-> message, niter |-> niter, dfinal |-> dfinal]

NoResult == FitResult(-1, "", 0, 0)

\* ------------------------------------------------------------------------
\* aggregate.knot_shift_aggregate: the derived quantities
\* ------------------------------------------------------------------------

\* Line 16: q = (1.0 - p) / d
AggQ(p, d) == FlIntDiv(FlSub(One, p), d)

\* Lines 17-18: scale_left and scale_right
ScaleLeft(t, knots, q) == FlMul(FlSub(knots[1], t[1]), q)
ScaleRight(t, knots, q) == FlMul(FlSub(t[Len(t)], knots[Len(knots)]), q)

\* Lines 22-23, 29-30: model.knots + i * scale
ShiftKnots(knots, i, scale) ==
    Tup([k \in 1..Len(knots) |-> FlAdd(knots[k], FlIntMul(i, scale))])

\* The variant of Consensus that keeps a sample when either mask keeps it.
ConsensusEither(w, mw) ==
    Tup([i \in 1..Len(w) |-> IF w[i] + mw[i] > 0 THEN 1 ELSE 0])

\* Line 36: w *= m.w
Consensus(w, mw) == Tup([i \in 1..Len(w) |-> w[i] * mw[i]])

RECURSIVE ConsensusAll(_, _, _, _)
\* Lines 35-36: the loop over the shifted models, from the k-th on.
ConsensusAll(w, heap, ms, k) ==
    IF k > Len(ms) THEN w
    ELSE ConsensusAll(Consensus(w, heap[ms[k].w]), heap, ms, k + 1)

\* Line 34: w = model.w.copy()
CopyOfMask(heap, m) ==
    [heap |-> Append(heap, heap[m.w]), ref |-> Len(heap) + 1]

\* ------------------------------------------------------------------------
\* Inputs
\* ------------------------------------------------------------------------

\* Largest maxiter handed to refine.
MaxIter == 2

\* Largest number of duplicates handed to knot_shift_aggregate.
MaxDup == 2

\* Number of calls the client makes on its models after constructing one.
MaxCalls == 2

\* Evenly spaced times 0.0, 1.0, ... of n samples.
TimesOf(n) == Tup([i \in 1..n |-> (i - 1) * One])

\* Short series (7 samples), chosen so that refine converges at once, after
\* one to three replacements, oscillates, or runs into a singular fit.
ShortSeries ==
    { <<0, 0, 1, 1, 1, 1, 2>>,
      <<0, 0, 0, 0, 1, 9, 30>>,
      <<0, 9, 30, 0, 0, 2, 2>>,
      <<0, 2, 0, 2, 0, 9, 30>>,
      <<0, 0, 0, 0, 0, 1, 2>> }

\* Long series (47 samples, two per default knot interval): noise of 0 and
\* 1 with a few spikes.
LongSeries ==
    { <<0, 1, 0, 0, 0, 1, 1, 0, 0, 0, 0, 1, 0, 1, 0, 0, 0, 0, 1, 0, 1, 1, 1,
        1, 0, 5, 1, 0, 5, 1, 1, 0, 1, 0, 0, 1, 0, 5, 1, 0, 1, 1, 0, 0, 0, 0,
        1>> }

\* **spline_args of the client: whatever k it names is reset to 3.
SplineArgs == {[ext |-> "const", k |-> 5]}

\* What the client constructs its first model from.
ShortConfigs ==
    [y : ShortSeries,
     nknots : {1, 2, 3},
     override : {NoOverride, Override(<<>>), Override(<<5 * (One \div 2)>>)},
     w : {<<>>, <<1, 1, 0, 0, 0, 1, 1>>},
     kwargs : SplineArgs]

LongConfigs ==
    [y : LongSeries,
     nknots : {DefaultNKnots, 9},
     override : {NoOverride, Override(<<10 * One, 20 * One, 30 * One>>)},
     w : {<<>>},
     kwargs : SplineArgs]

Configs == ShortConfigs \cup LongConfigs

\* Proximity factors: 0.5 and a value below half an ulp of 1.0.
TinyP == One \div Pow2(MantBits + 1)
ProximityFactors == {One \div 2, TinyP}

\* Masks the client hands to replace_mask on a series of n samples.
ClientMasks(n) ==
    { Tup([i \in 1..n |-> 1]),
      Tup([i \in 1..n |-> IF i \in 3..5 THEN 0 ELSE 1]),
      Tup([i \in 1..n |-> IF i = 2 THEN 0 ELSE 1]) }

\* ------------------------------------------------------------------------
\* State
\* ------------------------------------------------------------------------

VARIABLES
    heap,        \* the numpy weight arrays, by reference
    obj,         \* the SplineModel instances, by reference
    born,        \* per instance: who created it, from what (history)
    pc,          \* the client: "idle", "refine" or "aggregate"
    calls,       \* number of calls the client has made
    ret,         \* outcome of the client's last call
    rf,          \* the frame of the running (or last) refine
    ag,          \* the frame of the running (or last) knot_shift_aggregate
    mi_warray,   \* mask_index: the input
    mi_i,        \* mask_index: Python index of the next stream element
    mi_st,       \* mask_index: state, thisres, res
    mi_pc,       \* mask_index: "scan", "done" or "off"
    ct,          \* the frame of a SplineModel.__init__ run on its own
    dc,          \* the arguments and results of dist calls on their own
    par          \* the duplicates of an aggregation refined as separate tasks

mi_vars == <<mi_warray, mi_i, mi_st, mi_pc>>
model_vars == <<heap, obj, born, pc, calls, ret, rf, ag>>
aux_vars == <<ct, dc, par>>
vars == <<heap, obj, born, pc, calls, ret, rf, ag,
          mi_warray, mi_i, mi_st, mi_pc, ct, dc, par>>

\* What is compared of an instance: its series, knots, the contents
\* of its mask and its fitted spline.
View(h, m) ==
    [t |-> m.t, y |-> m.y, knots |-> m.knots, w |-> h[m.w], spr |-> m.spr]

NoView == [t |-> <<>>, y |-> <<>>, knots |-> <<>>, w |-> <<>>, spr |-> <<>>]

NoFrame ==
    [active |-> FALSE, outcome |-> "none", self |-> 0, caller |-> "none",
     target_d |-> 0, maxiter |-> 0, niter |-> 0, dxor |-> -1,
     result |-> NoResult, err |-> "",
     \* history: classification evaluations, the distances computed, the
     \* candidate masks, the model at the call, whether the call repeats a
     \* converged one
     evals |-> 0, ds |-> <<>>, cands |-> <<>>, pre |-> NoView,
     pre_dirty |-> TRUE, again |-> FALSE]

NoAgg ==
    [pc |-> "off", model |-> 0, d |-> 0, p |-> 0, q |-> 0,
     scale_left |-> 0, scale_right |-> 0, i |-> 0,
     shifted_models |-> <<>>, this_model |-> 0, w |-> 0,
     model_new |-> 0, model_agg |-> 0,
     target_d |-> 0, maxiter |-> 0,
     \* history: the base model at the call
     pre |-> NoView]

NoRet == [op |-> "none", self |-> 0, ok |-> TRUE, err |-> "", value |-> 0,
          result |-> NoResult, target_d |-> 0, maxiter |-> 0]

\* The frame of __init__: its arguments, the step N and the knots of lines
\* 73-77, and how it ended.
NoCt ==
    [pc |-> "off", t |-> <<>>, y |-> <<>>, nknots |-> 0,
     knots_override |-> NoOverride, N |-> 0, knots |-> <<>>, err |-> ""]

\* No dist computation.
NoDc ==
    [pc |-> "off", x |-> <<>>, y |-> <<>>, z |-> <<>>,
     xx |-> 0, xy |-> 0, yx |-> 0, yz |-> 0, xz |-> 0]

\* No duplicates run as tasks.
NoPar == [pc |-> "off", mem |-> <<>>, fr |-> <<>>, steps |-> <<>>]

AuxOff ==
    /\ ct = NoCt
    /\ dc = NoDc
    /\ par = NoPar

MiOff ==
    /\ mi_warray = <<>>
    /\ mi_i = 0
    /\ mi_st = MiStart
    /\ mi_pc = "off"

ModelOff ==
    /\ heap = <<>>
    /\ obj = <<>>
    /\ born = <<>>
    /\ pc = "off"
    /\ calls = 0
    /\ ret = NoRet
    /\ rf = NoFrame
    /\ ag = NoAgg

\* Instances the client holds: the one it constructed and those returned by
\* cure_knots and knot_shift_aggregate.
Live == {id \in 1..Len(obj) : born[id].by \in {"client", "cure", "aggregate"}}

\* ------------------------------------------------------------------------
\* mask_index, step by step
\* ------------------------------------------------------------------------

MiInit ==
    /\ mi_warray \in SeqsUpTo({0, 1}, MaxLen)
    /\ mi_i = 0
    /\ mi_st = MiStart
    /\ mi_pc = "scan"
    /\ ModelOff
    /\ AuxOff

\* One pass through the loop body.
MiStep ==
    /\ mi_pc = "scan"
    /\ mi_i < Len(Stream(mi_warray))
    /\ mi_st' = MiTrans(Stream(mi_warray), mi_st, mi_i)
    /\ mi_i' = mi_i + 1
    /\ UNCHANGED <<mi_warray, mi_pc>>
    /\ UNCHANGED model_vars
    /\ UNCHANGED aux_vars

\* The stream is exhausted: return res.
MiReturn ==
    /\ mi_pc = "scan"
    /\ mi_i >= Len(Stream(mi_warray))
    /\ mi_pc' = "done"
    /\ UNCHANGED <<mi_warray, mi_i, mi_st>>
    /\ UNCHANGED model_vars
    /\ UNCHANGED aux_vars

MiNext == MiStep \/ MiReturn

SpecRun == MiInit /\ [][MiNext]_vars

\* ------------------------------------------------------------------------
\* The client and SplineModel.refine
\* ------------------------------------------------------------------------

\* The client constructs its model.
Init ==
    /\ MiOff
    /\ AuxOff
    /\ \E c \in Configs :
        LET t == TimesOf(Len(c.y))
            h0 == IF c.w = <<>> THEN <<>> ELSE <<c.w>>
            r == SplineModel(h0, t, c.y, c.nknots, c.override,
                             IF c.w = <<>> THEN NoWeights ELSE 1, c.kwargs)
        IN  /\ r.ok
            /\ heap = r.heap
            /\ obj = <<r.m>>
            /\ born = <<[by |-> "client", of |-> 0, src |-> NoView,
                       w0 |-> r.heap[r.m.w]]>>
    /\ pc = "idle"
    /\ calls = 0
    /\ ret = NoRet
    /\ rf = NoFrame
    /\ ag = NoAgg

\* Entry of refine(target_d, maxiter) on instance id: niter = 0.
EnterRefine(id, view, target_d, maxiter, caller) ==
    [NoFrame EXCEPT !.active = TRUE, !.outcome = "running", !.self = id,
                    !.caller = caller, !.target_d = target_d,
                    !.maxiter = maxiter,
                    !.pre = view,
                    !.again = /\ caller = "top"
                              /\ ret.op = "refine" /\ ret.self = id
                              /\ ret.ok /\ ret.result.status = 0
                              /\ ret.target_d = target_d
                              /\ ret.maxiter = maxiter]

\* A variant that lets every pair of arguments through.
ArgsAny(target_d, maxiter) == TRUE

\* Lines 150-151: assert target_d >= 0, assert maxiter > 0
ArgsValid(target_d, maxiter) == target_d >= 0 /\ maxiter > 0

\* The arguments the client hands to refine: the valid ones, a negative
\* target_d and a zero maxiter.
RefineArgs ==
    [target_d : {0, 1}, maxiter : 1..MaxIter]
    \cup {[target_d |-> -1, maxiter |-> 1], [target_d |-> 0, maxiter |-> 0]}

\* The client calls refine.
CallRefine ==
    /\ pc = "idle" /\ calls < MaxCalls
    /\ \E id \in Live, a \in RefineArgs :
        LET f == [EnterRefine(id, View(heap, obj[id]), a.target_d, a.maxiter,
                              "top")
                    EXCEPT !.pre_dirty = obj[id].stats_dirty]
        IN  IF ArgsValid(a.target_d, a.maxiter)
            THEN /\ rf' = f
                 /\ pc' = "refine"
                 /\ ret' = ret
            ELSE /\ rf' = [f EXCEPT !.active = FALSE, !.outcome = "rejected",
                                    !.err = "AssertionError"]
                 /\ pc' = "idle"
                 /\ ret' = [NoRet EXCEPT !.op = "refine", !.self = id,
                                         !.ok = FALSE,
                                         !.err = "AssertionError",
                                         !.target_d = a.target_d,
                                         !.maxiter = a.maxiter]
    /\ calls' = calls + 1
    /\ UNCHANGED <<heap, obj, born, ag>>
    /\ UNCHANGED mi_vars
    /\ UNCHANGED aux_vars

\* What the caller of refine sees when it returns or raises.
AfterRefine(f, ok, err) ==
    IF f.caller = "top"
    THEN /\ pc' = "idle"
         /\ ret' = [NoRet EXCEPT !.op = "refine", !.self = f.self, !.ok = ok,
                                 !.err = err, !.result = f.result,
                                 !.target_d = f.target_d,
                                 !.maxiter = f.maxiter]
         /\ ag' = ag
    ELSE IF ok
    THEN /\ pc' = pc
         /\ ret' = ret
         /\ ag' = [ag EXCEPT !.pc = IF ag.pc = "refining" THEN "append"
                                    ELSE "return"]
    ELSE /\ pc' = "idle"
         /\ ret' = [NoRet EXCEPT !.op = "aggregate", !.self = ag.model,
                                 !.ok = FALSE, !.err = err]
         /\ ag' = [ag EXCEPT !.pc = "raised"]

\* One pass through the body of the while loop (lines 156-162).
RefineIter ==
    /\ rf.active
    /\ WhileCond(rf.niter, rf.maxiter)
    /\ LET m == obj[rf.self]
           ip == InlierPredicate(heap, m, m.t, m.y, DefaultUb, DefaultLb)
           dxor == Dist(ip.mask, heap[ip.m.w])
           f1 == [rf EXCEPT !.dxor = dxor, !.evals = rf.evals + 1,
                            !.ds = Append(rf.ds, dxor),
                            !.cands = Append(rf.cands, ip.mask)]
       IN  IF IsConverged(dxor, rf.target_d)
           THEN LET e == ConvergedExit(heap, ip.m, ip.mask)
                    f2 == [f1 EXCEPT !.active = FALSE, !.outcome = "returned",
                                     !.result = FitResult(0, "Converged",
                                                          rf.niter, dxor)]
                IN  /\ heap' = e.heap
                    /\ obj' = [obj EXCEPT ![rf.self] = e.m]
                    /\ rf' = f2
                    /\ AfterRefine(f2, TRUE, "")
           ELSE LET h2 == Append(heap, ip.mask)
                    r == ReplaceMask(h2, ip.m, Len(h2))
                    f2 == IF r.ok THEN [f1 EXCEPT !.niter = rf.niter + 1]
                          ELSE [f1 EXCEPT !.active = FALSE,
                                          !.outcome = "raised",
                                          !.err = r.err]
                IN  /\ heap' = r.heap
                    /\ obj' = [obj EXCEPT ![rf.self] = r.m]
                    /\ rf' = f2
                    /\ IF r.ok THEN UNCHANGED <<pc, ret, ag>>
                       ELSE AfterRefine(f2, FALSE, r.err)
    /\ UNCHANGED <<born, calls>>
    /\ UNCHANGED mi_vars
    /\ UNCHANGED aux_vars

\* The else branch of the while loop (lines 163-166).
RefineExhausted ==
    /\ rf.active
    /\ ~WhileCond(rf.niter, rf.maxiter)
    /\ LET f2 == [rf EXCEPT !.active = FALSE, !.outcome = "returned",
                            !.result = FitResult(1,
                                "Maximum iteration limit exceeded",
                                rf.niter, rf.dxor)]
       IN  /\ rf' = f2
           /\ AfterRefine(f2, TRUE, "")
    /\ UNCHANGED <<heap, obj, born, calls>>
    /\ UNCHANGED mi_vars
    /\ UNCHANGED aux_vars

\* The client calls replace_mask with an array of its own.
CallReplaceMask ==
    /\ pc = "idle" /\ calls < MaxCalls
    /\ \E id \in Live :
        \E mask \in ClientMasks(Len(obj[id].t)) :
            LET h2 == Append(heap, mask)
                r == ReplaceMask(h2, obj[id], Len(h2))
            IN  /\ heap' = r.heap
                /\ obj' = [obj EXCEPT ![id] = r.m]
                /\ ret' = [NoRet EXCEPT !.op = "replace_mask", !.self = id,
                                        !.ok = r.ok, !.err = r.err]
    /\ calls' = calls + 1
    /\ UNCHANGED <<born, pc, rf, ag>>
    /\ UNCHANGED mi_vars
    /\ UNCHANGED aux_vars

\* The client calls inlier_predicate on the instance's own series.
CallInlierPredicate ==
    /\ pc = "idle" /\ calls < MaxCalls
    /\ \E id \in Live :
        LET m == obj[id]
            ip == InlierPredicate(heap, m, m.t, m.y, DefaultUb, DefaultLb)
        IN  /\ obj' = [obj EXCEPT ![id] = ip.m]
            /\ ret' = [NoRet EXCEPT !.op = "inlier_predicate", !.self = id]
    /\ calls' = calls + 1
    /\ UNCHANGED <<heap, born, pc, rf, ag>>
    /\ UNCHANGED mi_vars
    /\ UNCHANGED aux_vars

\* The client calls cure_knots.
CallCureKnots ==
    /\ pc = "idle" /\ calls < MaxCalls
    /\ \E id \in Live :
        LET r == CureKnots(heap, obj[id])
        IN  /\ heap' = r.heap
            /\ obj' = IF r.ok THEN Append(obj, r.m) ELSE obj
            /\ born' = IF r.ok
                       THEN Append(born, [by |-> "cure", of |-> id,
                                          src |-> View(heap, obj[id]),
                                          w0 |-> r.heap[r.m.w]])
                       ELSE born
            /\ ret' = [NoRet EXCEPT !.op = "cure_knots", !.self = id,
                                    !.ok = r.ok, !.err = r.err,
                                    !.value = Len(obj) + 1]
    /\ calls' = calls + 1
    /\ UNCHANGED <<pc, rf, ag>>
    /\ UNCHANGED mi_vars
    /\ UNCHANGED aux_vars

\* ------------------------------------------------------------------------
\* aggregate.knot_shift_aggregate, statement by statement
\* ------------------------------------------------------------------------

\* range(-d, 0) followed by range(1, d + 1)
NextI(i) == IF i = -1 THEN 1 ELSE i + 1

AggRaise(err) ==
    /\ pc' = "idle"
    /\ ret' = [NoRet EXCEPT !.op = "aggregate", !.self = ag.model,
                            !.ok = FALSE, !.err = err]

\* Lines 12-19: the client calls knot_shift_aggregate(model, duplicates,
\* proximity_factor, **refine_args).
CallAggregate ==
    /\ pc = "idle" /\ calls < MaxCalls
    /\ \E id \in Live, d \in 1..MaxDup, p \in ProximityFactors,
          target_d \in {1} :
        LET m == obj[id]
            q == AggQ(p, d)
        IN  IF Len(m.knots) = 0
            THEN /\ pc' = "idle"
                 /\ ret' = [NoRet EXCEPT !.op = "aggregate", !.self = id,
                                         !.ok = FALSE, !.err = "IndexError"]
                 /\ ag' = [NoAgg EXCEPT !.pc = "raised", !.model = id]
            ELSE /\ pc' = "aggregate"
                 /\ ret' = ret
                 /\ ag' = [NoAgg EXCEPT
                             !.pc = "member", !.model = id, !.d = d, !.p = p,
                             !.q = q,
                             !.scale_left = ScaleLeft(m.t, m.knots, q),
                             !.scale_right = ScaleRight(m.t, m.knots, q),
                             !.i = -d,
                             !.target_d = target_d, !.maxiter = MaxIter,
                             !.pre = View(heap, m)]
    /\ calls' = calls + 1
    /\ UNCHANGED <<heap, obj, born, rf>>
    /\ UNCHANGED mi_vars
    /\ UNCHANGED aux_vars

\* The knots of the duplicate with index i.
MemberKnots(i) ==
    ShiftKnots(obj[ag.model].knots, i,
               IF i < 0 THEN ag.scale_left ELSE ag.scale_right)

\* Lines 21-25 and 28-32: construct the duplicate with index i and enter its
\* refine.
AggMember ==
    /\ pc = "aggregate" /\ ag.pc = "member" /\ ag.i <= ag.d
    /\ LET m == obj[ag.model]
           r == SplineModel(heap, m.t, m.y, DefaultNKnots,
                            Override(MemberKnots(ag.i)), NoWeights, m.kwargs)
           id == Len(obj) + 1
       IN  /\ heap' = r.heap
           /\ IF r.ok
              THEN /\ obj' = Append(obj, r.m)
                   /\ born' = Append(born, [by |-> "member", of |-> ag.model,
                                            src |-> View(heap, m),
                                            w0 |-> r.heap[r.m.w]])
                   /\ ag' = [ag EXCEPT !.pc = "refining", !.this_model = id]
                   /\ rf' = EnterRefine(id, View(r.heap, r.m), ag.target_d,
                                        ag.maxiter, "aggregate")
                   /\ UNCHANGED <<pc, ret>>
              ELSE /\ AggRaise(r.err)
                   /\ ag' = [ag EXCEPT !.pc = "raised"]
                   /\ UNCHANGED <<obj, born, rf>>
    /\ UNCHANGED calls
    /\ UNCHANGED mi_vars
    /\ UNCHANGED aux_vars

\* Lines 26 and 33: shifted_models.append(this_model)
AggAppend ==
    /\ pc = "aggregate" /\ ag.pc = "append"
    /\ ag' = [ag EXCEPT !.pc = "member",
                        !.shifted_models = Append(@, ag.this_model),
                        !.i = NextI(ag.i)]
    /\ UNCHANGED <<heap, obj, born, pc, calls, ret, rf>>
    /\ UNCHANGED mi_vars
    /\ UNCHANGED aux_vars

\* Lines 34-36: the consensus mask.
AggConsensus ==
    /\ pc = "aggregate" /\ ag.pc = "member" /\ ag.i > ag.d
    /\ LET cp == CopyOfMask(heap, obj[ag.model])
           ms == Tup([k \in 1..Len(ag.shifted_models) |->
                        obj[ag.shifted_models[k]]])
       IN  /\ heap' = [cp.heap EXCEPT
                         ![cp.ref] = ConsensusAll(cp.heap[cp.ref], cp.heap, ms, 1)]
           /\ ag' = [ag EXCEPT !.pc = "final", !.w = cp.ref]
    /\ UNCHANGED <<obj, born, pc, calls, ret, rf>>
    /\ UNCHANGED mi_vars
    /\ UNCHANGED aux_vars

\* Line 37: model_new = SplineModel(model.t, model.y, w=w,
\* **model._kwargs_save)
AggFinal ==
    /\ pc = "aggregate" /\ ag.pc = "final"
    /\ LET m == obj[ag.model]
           r == SplineModel(heap, m.t, m.y, DefaultNKnots, NoOverride, ag.w,
                            m.kwargs)
       IN  /\ heap' = r.heap
           /\ IF r.ok
              THEN /\ obj' = Append(obj, r.m)
                   /\ born' = Append(born, [by |-> "final", of |-> ag.model,
                                            src |-> View(heap, m),
                                            w0 |-> r.heap[r.m.w]])
                   /\ ag' = [ag EXCEPT !.pc = "cure", !.model_new = Len(obj) + 1]
                   /\ UNCHANGED <<pc, ret>>
              ELSE /\ AggRaise(r.err)
                   /\ ag' = [ag EXCEPT !.pc = "raised"]
                   /\ UNCHANGED <<obj, born>>
    /\ UNCHANGED <<calls, rf>>
    /\ UNCHANGED mi_vars
    /\ UNCHANGED aux_vars

\* Lines 38-39: model_agg = model_new.cure_knots(), then enter its refine.
AggCure ==
    /\ pc = "aggregate" /\ ag.pc = "cure"
    /\ LET m == obj[ag.model_new]
           r == CureKnots(heap, m)
           id == Len(obj) + 1
       IN  /\ heap' = r.heap
           /\ IF r.ok
              THEN /\ obj' = Append(obj, r.m)
                   /\ born' = Append(born, [by |-> "agg_cure", of |-> ag.model_new,
                                            src |-> View(heap, m),
                                            w0 |-> r.heap[r.m.w]])
                   /\ ag' = [ag EXCEPT !.pc = "last_refine", !.model_agg = id]
                   /\ rf' = EnterRefine(id, View(r.heap, r.m), ag.target_d,
                                        ag.maxiter, "aggregate")
                   /\ UNCHANGED <<pc, ret>>
              ELSE /\ AggRaise(r.err)
                   /\ ag' = [ag EXCEPT !.pc = "raised"]
                   /\ UNCHANGED <<obj, born, rf>>
    /\ UNCHANGED calls
    /\ UNCHANGED mi_vars
    /\ UNCHANGED aux_vars

\* Line 40: return model_agg
AggReturn ==
    /\ pc = "aggregate" /\ ag.pc = "return"
    /\ pc' = "idle"
    /\ ag' = [ag EXCEPT !.pc = "returned"]
    /\ born' = [born EXCEPT ![ag.model_agg].by = "aggregate"]
    /\ ret' = [NoRet EXCEPT !.op = "aggregate", !.self = ag.model,
                            !.value = ag.model_agg]
    /\ UNCHANGED <<heap, obj, calls, rf>>
    /\ UNCHANGED mi_vars
    /\ UNCHANGED aux_vars

Next ==
    \/ CallRefine
    \/ RefineIter
    \/ RefineExhausted
    \/ CallReplaceMask
    \/ CallInlierPredicate
    \/ CallCureKnots
    \/ CallAggregate
    \/ AggMember
    \/ AggAppend
    \/ AggConsensus
    \/ AggFinal
    \/ AggCure
    \/ AggReturn

Spec == Init /\ [][Next]_vars

\* ------------------------------------------------------------------------
\* C1
\* ------------------------------------------------------------------------

\* res is a list of half-open intervals inside 0..n, in strictly increasing
\* order, pairwise non-overlapping and non-adjacent.
WellFormedRuns(res, n) ==
    /\ \A k \in 1..Len(res) :
        /\ Len(res[k]) = 2
        /\ 0 <= res[k][1] /\ res[k][1] < res[k][2] /\ res[k][2] <= n
    /\ \A k \in 1..(Len(res) - 1) : res[k][2] < res[k + 1][1]

\* Python index i lies in some interval of res.
Covered(res, i) == \E k \in 1..Len(res) : res[k][1] <= i /\ i < res[k][2]

\* C1: when mask_index returns, its result is the list of maximal runs of
\* false entries as well-formed half-open intervals, and an index is false in
\* the input exactly when it lies in an emitted interval.
C1_MaximalRuns ==
    mi_pc = "done" =>
        /\ WellFormedRuns(mi_st.res, Len(mi_warray))
        /\ \A i \in 0..(Len(mi_warray) - 1) :
            ~AsBool(mi_warray[i + 1]) <=> Covered(mi_st.res, i)
        /\ mi_st.res = MaskIndex(mi_warray)

\* A returned scan with two runs, the second one closed by the sentinel.
C1_Witness ==
    /\ mi_pc = "done"
    /\ Len(mi_st.res) = 2
    /\ mi_st.res[2][2] = Len(mi_warray)

\* ------------------------------------------------------------------------
\* C2 - C5: refine
\* ------------------------------------------------------------------------

\* refine has returned and its caller has not moved since: the client is idle
\* with this call as its last one, or the aggregator is about to go on.
RefineJustReturned ==
    /\ rf.outcome = "returned"
    /\ \/ rf.caller = "top" /\ pc = "idle" /\ ret.op = "refine"
       \/ rf.caller = "aggregate" /\ pc = "aggregate"
            /\ ag.pc \in {"append", "return"}

\* The spline a replace_mask with the mask w installs in the model m.
FitOf(m, w) == LSQUnivariateSpline(m.t, m.y, m.knots, w).spr

\* C2: when refine returns Converged after niter replacements, niter + 1
\* candidate masks were computed and the last one is dropped: with niter = 0
\* the mask and the spline are those held at the call, otherwise they are the
\* niter-th candidate and its fit, installed by the last replace_mask.
C2_CandidateDiscarded ==
    (RefineJustReturned /\ rf.result.status = 0) =>
        LET m == obj[rf.self]
            k == rf.result.niter
        IN  /\ Len(rf.cands) = k + 1
            /\ IF k = 0
               THEN heap[m.w] = rf.pre.w /\ m.spr = rf.pre.spr
               ELSE heap[m.w] = rf.cands[k] /\ m.spr = FitOf(m, rf.cands[k])

\* A converged refine that replaced the mask at least once and whose last
\* candidate differs from the committed mask in one sample.
C2_Witness ==
    /\ RefineJustReturned
    /\ rf.result.status = 0
    /\ rf.result.niter >= 1
    /\ rf.result.dfinal = 1
    /\ heap[obj[rf.self].w] # rf.cands[Len(rf.cands)]

\* C3: a refine with maxiter > 0 never evaluates the classification more
\* than maxiter + 1 times, it evaluates it once per pass of the loop, and when
\* it returns through the non-convergent exit it has evaluated it exactly
\* maxiter + 1 times.
C3_EvaluationBound ==
    rf.outcome # "none" =>
        /\ rf.evals <= rf.maxiter + 1
        /\ rf.active => rf.evals = rf.niter
        /\ (rf.outcome = "returned" /\ rf.result.status = 1) =>
                rf.evals = rf.maxiter + 1

\* A refine with maxiter = MaxIter that left through the non-convergent exit.
C3_Witness ==
    /\ rf.outcome = "returned"
    /\ rf.result.status = 1
    /\ rf.maxiter = MaxIter
    /\ rf.evals = MaxIter + 1

\* C4: a refine either raises the kernel's error or returns a FitResult;
\* the result carries the last distance computed, its status is 0
\* ("Converged") exactly when that distance is at most target_d, and 1
\* ("Maximum iteration limit exceeded") otherwise.
C4_ResultRecord ==
    /\ rf.outcome \in {"none", "running", "returned", "raised", "rejected"}
    /\ rf.outcome = "rejected" => ~(rf.target_d >= 0 /\ rf.maxiter > 0)
    /\ rf.outcome = "raised" => rf.err = "FitError"
    /\ rf.outcome = "returned" =>
        LET last == rf.ds[Len(rf.ds)]
        IN  /\ Len(rf.ds) > 0
            /\ rf.result.dfinal = last
            /\ rf.result.status \in {0, 1}
            /\ rf.result.status = 0 <=> last <= rf.target_d
            /\ rf.result.status = 0 => rf.result.message = "Converged"
            /\ rf.result.status = 1 =>
                 rf.result.message = "Maximum iteration limit exceeded"

\* A converged refine whose last distance equals target_d = 1.
C4_Witness ==
    /\ rf.outcome = "returned"
    /\ rf.result.status = 0
    /\ rf.target_d = 1
    /\ rf.result.dfinal = 1

\* C5: a refine that the client calls right after a converged refine of the
\* same instance with the same target_d and maxiter returns Converged with
\* niter = 0 and leaves the mask and the spline as they were.
C5_ReRefineIdempotent ==
    (rf.again /\ ~rf.active /\ pc = "idle" /\ ret.op = "refine") =>
        /\ rf.outcome = "returned"
        /\ rf.result.status = 0
        /\ rf.result.niter = 0
        /\ heap[obj[rf.self].w] = rf.pre.w
        /\ obj[rf.self].spr = rf.pre.spr

\* The second of two such calls has returned, the first one having replaced
\* the mask: the committed mask has outliers.
C5_Witness ==
    /\ rf.again /\ rf.outcome = "returned"
    /\ pc = "idle" /\ ret.op = "refine"
    /\ \E i \in 1..Len(rf.pre.w) : rf.pre.w[i] = 0
    /\ born[rf.self].w0 # rf.pre.w

\* ------------------------------------------------------------------------
\* C6 - C7: cure_knots and the instances that exist already
\* ------------------------------------------------------------------------

\* The maximal runs of false entries of the mask w, as pairs of Python
\* indices <<start, end>> with start < end.
MaximalRuns(w) ==
    LET n == Len(w)
        starts == {a \in 0..(n - 1) :
                     /\ ~AsBool(w[a + 1])
                     /\ a = 0 \/ AsBool(w[a])}
        endOf(a) == CHOOSE b \in (a + 1)..n :
                      /\ b = n \/ AsBool(w[b + 1])
                      /\ \A j \in a..(b - 1) : ~AsBool(w[j + 1])
    IN  {<<a, endOf(a)>> : a \in starts}

\* The knot lies strictly inside the open span (t[start], t[end - 1]) of a
\* maximal outlier run of w.
InsideOutlierSpan(t, w, knot) ==
    \E run \in MaximalRuns(w) : t[run[1] + 1] < knot /\ knot < t[run[2]]

\* The instances made by cure_knots, by the client or by the aggregator.
Cured == {id \in 1..Len(obj) : born[id].by \in {"cure", "agg_cure", "aggregate"}}

\* C6: the knots of a model made by cure_knots are the knots of the original
\* that do not lie strictly inside the span of a maximal outlier run of its
\* mask, in their order; its series is the original's and it is constructed
\* with the original's mask.
C6_CuredKnots ==
    \A id \in Cured :
        LET src == born[id].src
        IN  /\ obj[id].knots =
                 SelectSeq(src.knots,
                           LAMBDA knot : ~InsideOutlierSpan(src.t, src.w, knot))
            /\ \A k \in 1..Len(obj[id].knots) :
                 \E j \in 1..Len(src.knots) : obj[id].knots[k] = src.knots[j]
            /\ obj[id].t = src.t
            /\ obj[id].y = src.y
            /\ born[id].w0 = src.w

\* A cured model that lost a knot inside an outlier run and kept another.
C6_Witness ==
    \E id \in Cured :
        LET src == born[id].src
        IN  /\ Len(obj[id].knots) < Len(src.knots)
            /\ Len(obj[id].knots) > 0
            /\ Cardinality(MaximalRuns(src.w)) >= 1

\* The instance a step works on: the one being refined, or the one whose
\* replace_mask the client calls.
StepTarget ==
    IF rf.active THEN {rf.self}
    ELSE IF pc = "idle" /\ ret'.op = "replace_mask" THEN {ret'.self}
    ELSE {}

\* C7: no step changes the series, the knots, the mask or the spline of an
\* instance other than the one it works on: a cure_knots or a step of
\* knot_shift_aggregate changes none of the instances that exist, a
\* replace_mask on one instance changes no other, and when
\* knot_shift_aggregate returns its base model is as it was at the call.
C7_NoMutation ==
    [][/\ \A id \in 1..Len(obj) :
            id \notin StepTarget => View(heap', obj'[id]) = View(heap, obj[id])
       /\ (ag'.pc = "returned" /\ ag.pc # "returned") =>
            View(heap', obj'[ag.model]) = ag.pre]_vars

\* A cured model whose mask was replaced afterwards, the original still
\* holding the array the two shared.
C7_Witness ==
    \E id \in 1..Len(obj) :
        /\ born[id].by = "cure"
        /\ obj[id].w # obj[born[id].of].w
        /\ heap[obj[id].w] # heap[obj[born[id].of].w]
        /\ heap[obj[born[id].of].w] = born[id].w0

\* ------------------------------------------------------------------------
\* C8 - C10: knot_shift_aggregate
\* ------------------------------------------------------------------------

\* The mask of the k-th refined duplicate.
MemberMask(k) == heap[obj[ag.shifted_models[k]].w]

\* C8: once knot_shift_aggregate has computed its consensus mask, and for as
\* long as the call runs, all 2 * duplicates duplicates have been refined, a
\* sample is kept by the consensus mask only if the base model and every
\* duplicate keep it, and the final model is constructed with that mask.
C8_ConsensusMonotone ==
    (pc = "aggregate" /\ ag.w # 0) =>
        /\ Len(ag.shifted_models) = 2 * ag.d
        /\ \A i \in 1..Len(heap[ag.w]) :
             AsBool(heap[ag.w][i]) =>
                /\ AsBool(heap[obj[ag.model].w][i])
                /\ \A k \in 1..Len(ag.shifted_models) : AsBool(MemberMask(k)[i])
        /\ ag.model_new # 0 => born[ag.model_new].w0 = heap[ag.w]

\* A consensus over a base model that masks a sample all duplicates keep and
\* a duplicate that masks a sample the base model keeps.
C8_Witness ==
    /\ pc = "aggregate" /\ ag.w # 0 /\ ag.model_new # 0
    /\ \E i \in 1..Len(heap[ag.w]) :
         /\ ~AsBool(heap[obj[ag.model].w][i])
         /\ \A k \in 1..Len(ag.shifted_models) : AsBool(MemberMask(k)[i])
    /\ \E i \in 1..Len(heap[ag.w]), k \in 1..Len(ag.shifted_models) :
         /\ AsBool(heap[obj[ag.model].w][i])
         /\ ~AsBool(MemberMask(k)[i])
    /\ \E i \in 1..Len(heap[ag.w]) : AsBool(heap[ag.w][i])

\* C9: when knot_shift_aggregate, called with duplicates > 0 and
\* 0 < proximity_factor < 1 on a base model whose knots lie strictly inside
\* the domain, is about to construct a duplicate, every knot of each of the
\* shifted knot sets lies strictly inside (t[0], t[-1]).
C9_ShiftedKnotsInside ==
    (/\ pc = "aggregate" /\ ag.pc = "member"
     /\ ag.d > 0 /\ 0 < ag.p /\ ag.p < One
     /\ KnotsValid(ag.pre.t, ag.pre.knots)) =>
        \A i \in ((-ag.d)..(-1)) \cup (1..ag.d) :
            LET shifted == ShiftKnots(ag.pre.knots, i,
                                      IF i < 0 THEN ag.scale_left
                                      ELSE ag.scale_right)
            IN  \A k \in 1..Len(shifted) :
                    /\ ag.pre.t[1] < shifted[k]
                    /\ shifted[k] < ag.pre.t[Len(ag.pre.t)]

\* C10: the final model that knot_shift_aggregate constructs, before
\* cure_knots is applied to it, has the series and the knots of the base
\* model and the consensus mask.
C10_FinalModelKnots ==
    (pc = "aggregate" /\ ag.model_new # 0) =>
        /\ obj[ag.model_new].t = ag.pre.t
        /\ obj[ag.model_new].y = ag.pre.y
        /\ obj[ag.model_new].knots = ag.pre.knots
        /\ born[ag.model_new].w0 = heap[ag.w]

\* ------------------------------------------------------------------------
\* SplineModel.__init__ on its own, statement by statement
\* ------------------------------------------------------------------------

\* Longest series handed to the stand-alone run of __init__; nknots ranges
\* over -MaxSamples .. MaxSamples + 1.
MaxSamples == 6

\* The variant of DeriveKnots that takes a zero step for a step of one.
DeriveKnotsClamped(t, y, nknots, knots_override) ==
    IF nknots = 0 THEN [ok |-> FALSE, err |-> "ZeroDivisionError", N |-> 0,
                        knots |-> <<>>]
    ELSE LET N == PyFloorDiv(Len(y), nknots)
         IN  [ok |-> TRUE, err |-> "", N |-> N,
              knots |-> IF knots_override.given THEN knots_override.knots
                        ELSE PySlice(t, Max(PyFloorDiv(N, 2), 1),
                                     IF N = 0 THEN 1 ELSE N)]

\* Lines 73-77: N = len(y) // nknots and self.knots.  The division raises
\* for nknots = 0, the slice raises for a step of zero.
DeriveKnots(t, y, nknots, knots_override) ==
    IF nknots = 0 THEN [ok |-> FALSE, err |-> "ZeroDivisionError", N |-> 0,
                        knots |-> <<>>]
    ELSE LET N == PyFloorDiv(Len(y), nknots)
         IN  IF ~knots_override.given /\ N = 0
             THEN [ok |-> FALSE, err |-> "ValueError", N |-> N, knots |-> <<>>]
             ELSE [ok |-> TRUE, err |-> "", N |-> N,
                   knots |-> IF knots_override.given THEN knots_override.knots
                             ELSE PySlice(t, Max(PyFloorDiv(N, 2), 1), N)]

\* What the stand-alone run constructs its model from: a flat series of n
\* samples at the times 0, 1, ..., a knot count of either sign, and no
\* override or one knot between the first two samples.
NewArgs ==
    [y : {Tup([i \in 1..n |-> 0]) : n \in 2..MaxSamples},
     nknots : (-MaxSamples)..(MaxSamples + 1),
     knots_override : {NoOverride, Override(<<One \div 2>>)}]

NewInit ==
    /\ MiOff
    /\ heap = <<>> /\ obj = <<>> /\ born = <<>>
    /\ pc = "new" /\ calls = 0 /\ ret = NoRet /\ rf = NoFrame /\ ag = NoAgg
    /\ dc = NoDc
    /\ par = NoPar
    /\ \E a \in NewArgs :
        ct = [NoCt EXCEPT !.pc = "args", !.t = TimesOf(Len(a.y)), !.y = a.y,
                          !.nknots = a.nknots,
                          !.knots_override = a.knots_override]

\* Lines 73-77.
NewDerive ==
    /\ ct.pc = "args"
    /\ LET r == DeriveKnots(ct.t, ct.y, ct.nknots, ct.knots_override)
       IN  ct' = [ct EXCEPT !.pc = IF r.ok THEN "knots" ELSE "raised",
                            !.err = r.err, !.N = r.N, !.knots = r.knots]
    /\ UNCHANGED model_vars
    /\ UNCHANGED mi_vars
    /\ UNCHANGED <<dc, par>>

\* Lines 78-84: w is None, so the mask is all ones; replace_mask fits.
NewFit ==
    /\ ct.pc = "knots"
    /\ LET h2 == Append(heap, Tup([i \in 1..Len(ct.t) |-> 1]))
           m0 == [NoModel EXCEPT !.t = ct.t, !.y = ct.y, !.knots = ct.knots,
                                 !.kwargs = [ext |-> "const", k |-> 3]]
           r == ReplaceMask(h2, m0, Len(h2))
       IN  IF r.ok
           THEN /\ heap' = r.heap
                /\ obj' = <<r.m>>
                /\ born' = <<[by |-> "client", of |-> 0, src |-> NoView,
                              w0 |-> r.heap[r.m.w]]>>
                /\ ct' = [ct EXCEPT !.pc = "done"]
           ELSE /\ ct' = [ct EXCEPT !.pc = "raised", !.err = r.err]
                /\ UNCHANGED <<heap, obj, born>>
    /\ UNCHANGED <<pc, calls, ret, rf, ag>>
    /\ UNCHANGED mi_vars
    /\ UNCHANGED <<dc, par>>

NewNext == NewDerive \/ NewFit

SpecNew == NewInit /\ [][NewNext]_vars

\* ------------------------------------------------------------------------
\* C11
\* ------------------------------------------------------------------------

\* C11: the knots that __init__ derives without knots_override, from a
\* strictly ascending t and a step N >= 1, ascend strictly and lie strictly
\* between t[0] and t[-1].
C11_DerivedKnotsInside ==
    (ct.pc \in {"knots", "done"} /\ ~ct.knots_override.given /\ ct.N >= 1) =>
        KnotsValid(ct.t, ct.knots)

\* ------------------------------------------------------------------------
\* C12
\* ------------------------------------------------------------------------

\* C12: whenever the statistic of an instance is flagged valid
\* (_stats_dirty is false), the cached rmad is the median absolute residual
\* over the inliers of the mask the instance holds and of its predictions,
\* so that the next classification uses the statistic of the current mask.
C12_StatisticCurrent ==
    \A id \in 1..Len(obj) :
        ~obj[id].stats_dirty => obj[id].rmad = ResidualStat(heap, obj[id])

\* ------------------------------------------------------------------------
\* C13, C14
\* ------------------------------------------------------------------------

\* C13: a construction without knots_override whose derived step
\* N = len(y) // nknots is 0 (nknots larger than the number of samples)
\* raises at the slice of line 75 and produces no instance.
C13_ZeroStepRejected ==
    (/\ ct.pc \in {"knots", "done", "raised"}
     /\ ~ct.knots_override.given
     /\ ct.nknots # 0
     /\ PyFloorDiv(Len(ct.y), ct.nknots) = 0) =>
        /\ ct.pc = "raised"
        /\ ct.err = "ValueError"
        /\ obj = <<>>

C13_Witness ==
    /\ ct.pc = "raised"
    /\ ct.err = "ValueError"
    /\ ~ct.knots_override.given
    /\ ct.nknots > Len(ct.y)
    /\ obj = <<>>

\* C14: a construction with nknots <= 0 never produces an instance.
C14_NonPositiveRejected ==
    ct.nknots <= 0 => ct.pc # "done"

\* ------------------------------------------------------------------------
\* dist on its own: three masks of one length, and the distances between
\* them.
\* ------------------------------------------------------------------------

MaxBits == 3

DistArgs ==
    UNION {[x : Masks, y : Masks, z : Masks] :
           Masks \in {[1..n -> {0, 1}] : n \in 0..MaxBits}}

DistInit ==
    /\ MiOff
    /\ ModelOff
    /\ ct = NoCt
    /\ par = NoPar
    /\ \E a \in DistArgs :
        dc = [NoDc EXCEPT !.pc = "args", !.x = Tup(a.x), !.y = Tup(a.y),
                          !.z = Tup(a.z)]

DistCalls ==
    /\ dc.pc = "args"
    /\ dc' = [dc EXCEPT !.pc = "done",
                        !.xx = Dist(dc.x, dc.x),
                        !.xy = Dist(dc.x, dc.y),
                        !.yx = Dist(dc.y, dc.x),
                        !.yz = Dist(dc.y, dc.z),
                        !.xz = Dist(dc.x, dc.z)]
    /\ UNCHANGED <<model_vars, mi_vars, ct, par>>

DistNext == DistCalls

SpecDist == DistInit /\ [][DistNext]_vars

\* C15: on masks of one length dist is zero from a mask to itself, is
\* symmetric, satisfies the triangle inequality, and is the number of
\* positions at which the two masks differ.
C15_DistMetric ==
    dc.pc = "done" =>
        /\ dc.xx = 0
        /\ dc.xy = dc.yx
        /\ dc.xz <= dc.xy + dc.yz
        /\ dc.xy = Cardinality({i \in 1..Len(dc.x) : dc.x[i] # dc.y[i]})

C15_Witness ==
    /\ dc.pc = "done"
    /\ Len(dc.x) = MaxBits
    /\ dc.xy > 0 /\ dc.yz > 0
    /\ dc.xz = dc.xy + dc.yz

\* ------------------------------------------------------------------------
\* C16
\* ------------------------------------------------------------------------

\* The mask of the model knot_shift_aggregate has just returned.
ReturnedMask == heap[obj[ag.model_agg].w]

AggJustReturned == pc = "idle" /\ ag.pc = "returned" /\ ret.op = "aggregate"

\* C16: when knot_shift_aggregate returns, every sample masked by the base
\* model or by one of the refined duplicates is masked in the returned model.
C16_ReturnedMaskMonotone ==
    AggJustReturned =>
        \A i \in 1..Len(ReturnedMask) :
            AsBool(ReturnedMask[i]) =>
                /\ AsBool(heap[obj[ag.model].w][i])
                /\ \A k \in 1..Len(ag.shifted_models) : AsBool(MemberMask(k)[i])

\* ------------------------------------------------------------------------
\* C17
\* ------------------------------------------------------------------------

\* C17: every duplicate knot_shift_aggregate constructs starts from the
\* weights its base model was constructed with and from the base model's
\* spline arguments.
C17_MemberStartsFromBase ==
    \A id \in 1..Len(born) :
        born[id].by = "member" =>
            /\ born[id].w0 = born[born[id].of].w0
            /\ obj[id].kwargs = obj[born[id].of].kwargs

\* ------------------------------------------------------------------------
\* The duplicates of knot_shift_aggregate as separate tasks.  Task k
\* constructs the k-th duplicate (lines 21-24 and 28-31) and runs its refine
\* (lines 25 and 32), one pass of the while loop per step; the steps of the
\* tasks interleave freely, and the consensus mask (lines 34-36) is computed
\* once the tasks are joined.
\* ------------------------------------------------------------------------

\* Any task has ended: a join that does not wait for all of them.
AnyJoined(p) ==
    /\ \A k \in 1..Len(p.mem) : p.mem[k] # 0
    /\ \E k \in 1..Len(p.mem) : ~p.fr[k].active

\* Lines 20-33 are left: every duplicate is constructed and its refine has
\* returned.
AllJoined(p) ==
    /\ \A k \in 1..Len(p.mem) : p.mem[k] # 0
    /\ \A k \in 1..Len(p.mem) : ~p.fr[k].active

\* The loop index of the k-th duplicate: range(-d, 0), then range(1, d + 1).
IndexOf(k, d) == IF k <= d THEN k - d - 1 ELSE k - d

\* One pass of refine's while loop (lines 155-166) on model m with frame f.
MemberStep(h, m, f) ==
    IF ~f.active THEN [heap |-> h, m |-> m, f |-> f]
    ELSE IF ~WhileCond(f.niter, f.maxiter)
    THEN [heap |-> h, m |-> m,
          f |-> [f EXCEPT !.active = FALSE, !.outcome = "returned",
                          !.result = FitResult(1,
                              "Maximum iteration limit exceeded",
                              f.niter, f.dxor)]]
    ELSE
    LET ip == InlierPredicate(h, m, m.t, m.y, DefaultUb, DefaultLb)
        dxor == Dist(ip.mask, h[ip.m.w])
        f1 == [f EXCEPT !.dxor = dxor, !.evals = f.evals + 1,
                        !.ds = Append(f.ds, dxor),
                        !.cands = Append(f.cands, ip.mask)]
    IN  IF IsConverged(dxor, f.target_d)
        THEN LET e == ConvergedExit(h, ip.m, ip.mask)
             IN  [heap |-> e.heap, m |-> e.m,
                  f |-> [f1 EXCEPT !.active = FALSE, !.outcome = "returned",
                                   !.result = FitResult(0, "Converged",
                                                        f.niter, dxor)]]
        ELSE LET h2 == Append(h, ip.mask)
                 r == ReplaceMask(h2, ip.m, Len(h2))
             IN  [heap |-> r.heap, m |-> r.m,
                  f |-> IF r.ok THEN [f1 EXCEPT !.niter = f.niter + 1]
                        ELSE [f1 EXCEPT !.active = FALSE,
                                        !.outcome = "raised",
                                        !.err = r.err]]

\* What the tasks are started on.
ParConfigs ==
    {c \in ShortConfigs : c.w = <<>> /\ c.override = NoOverride}
    \cup {c \in LongConfigs : c.nknots = DefaultNKnots}

\* Number of duplicates on each side of the calls the tasks belong to.
ParDup == 1

\* The calls the tasks belong to.
ParArgs ==
    [c : ParConfigs, d : {ParDup}, p : ProximityFactors, target_d : {0, 1},
     maxiter : 1..MaxIter]

\* Lines 12-19, and the tasks not yet started.
ParInit ==
    /\ MiOff
    /\ ct = NoCt /\ dc = NoDc
    /\ \E a \in ParArgs :
        LET c == a.c
            d == a.d
            p == a.p
            target_d == a.target_d
            maxiter == a.maxiter
            t == TimesOf(Len(c.y))
            h0 == IF c.w = <<>> THEN <<>> ELSE <<c.w>>
            r == SplineModel(h0, t, c.y, c.nknots, c.override,
                             IF c.w = <<>> THEN NoWeights ELSE 1, c.kwargs)
            q == AggQ(p, d)
        IN  /\ r.ok
            /\ Len(r.m.knots) > 0
            /\ heap = r.heap
            /\ obj = <<r.m>>
            /\ born = <<[by |-> "client", of |-> 0, src |-> NoView,
                       w0 |-> r.heap[r.m.w]]>>
            /\ ag = [NoAgg EXCEPT
                        !.pc = "tasks", !.model = 1, !.d = d, !.p = p, !.q = q,
                        !.scale_left = ScaleLeft(r.m.t, r.m.knots, q),
                        !.scale_right = ScaleRight(r.m.t, r.m.knots, q),
                        !.i = -d,
                        !.target_d = target_d, !.maxiter = maxiter,
                        !.pre = View(r.heap, r.m)]
            /\ par = [pc |-> "run",
                      mem |-> Tup([k \in 1..(2 * d) |-> 0]),
                      fr |-> Tup([k \in 1..(2 * d) |-> NoFrame]),
                      steps |-> Tup([k \in 1..(2 * d) |-> 0])]
    /\ pc = "aggregate"
    /\ calls = 1
    /\ ret = NoRet
    /\ rf = NoFrame

\* Task k constructs its duplicate (lines 21-24 and 28-31) and enters its
\* refine.
ParNew(k) ==
    /\ par.pc = "run" /\ par.mem[k] = 0
    /\ LET m == obj[ag.model]
           r == SplineModel(heap, m.t, m.y, DefaultNKnots,
                            Override(MemberKnots(IndexOf(k, ag.d))),
                            NoWeights, m.kwargs)
           id == Len(obj) + 1
       IN  /\ heap' = r.heap
           /\ IF r.ok
              THEN /\ obj' = Append(obj, r.m)
                   /\ born' = Append(born, [by |-> "member", of |-> ag.model,
                                            src |-> View(heap, m),
                                            w0 |-> r.heap[r.m.w]])
                   /\ par' = [par EXCEPT
                                !.mem[k] = id,
                                !.fr[k] = EnterRefine(id, View(r.heap, r.m),
                                                      ag.target_d, ag.maxiter,
                                                      "aggregate")]
              ELSE /\ par' = [par EXCEPT !.pc = "raised"]
                   /\ UNCHANGED <<obj, born>>
    /\ UNCHANGED <<pc, calls, ret, rf, ag>>
    /\ UNCHANGED <<mi_vars, ct, dc>>

\* Task k makes one pass through the loop of its refine.
ParStep(k) ==
    /\ par.pc = "run" /\ par.mem[k] # 0 /\ par.fr[k].active
    /\ LET r == MemberStep(heap, obj[par.mem[k]], par.fr[k])
       IN  /\ heap' = r.heap
           /\ obj' = [obj EXCEPT ![par.mem[k]] = r.m]
           /\ par' = [par EXCEPT
                        !.fr[k] = r.f,
                        !.steps[k] = @ + 1,
                        !.pc = IF r.f.outcome = "raised" THEN "raised" ELSE @]
    /\ UNCHANGED <<born, pc, calls, ret, rf, ag>>
    /\ UNCHANGED <<mi_vars, ct, dc>>

\* The tasks are joined; lines 34-36: the consensus mask.
ParJoin ==
    /\ par.pc = "run" /\ AllJoined(par)
    /\ LET cp == CopyOfMask(heap, obj[ag.model])
           ms == Tup([k \in 1..Len(par.mem) |-> obj[par.mem[k]]])
       IN  /\ heap' = [cp.heap EXCEPT
                         ![cp.ref] = ConsensusAll(cp.heap[cp.ref], cp.heap, ms, 1)]
           /\ ag' = [ag EXCEPT !.w = cp.ref, !.shifted_models = par.mem]
    /\ par' = [par EXCEPT !.pc = "joined"]
    /\ UNCHANGED <<obj, born, pc, calls, ret, rf>>
    /\ UNCHANGED <<mi_vars, ct, dc>>

ParNext ==
    \/ \E k \in 1..Len(par.mem) : ParNew(k)
    \/ \E k \in 1..Len(par.mem) : ParStep(k)
    \/ ParJoin

SpecPar == ParInit /\ [][ParNext]_vars

RECURSIVE StepsOf(_, _, _, _)
\* n passes of the loop of refine in a row, nothing else running.
StepsOf(h, m, f, n) ==
    IF n = 0 THEN [heap |-> h, m |-> m, f |-> f]
    ELSE LET r == MemberStep(h, m, f)
         IN  StepsOf(r.heap, r.m, r.f, n - 1)

\* The k-th duplicate constructed and refined for n passes on its own.
SeqMember(k, n) ==
    LET m == obj[ag.model]
        r == SplineModel(<<>>, ag.pre.t, ag.pre.y, DefaultNKnots,
                         Override(ShiftKnots(ag.pre.knots, IndexOf(k, ag.d),
                                             IF IndexOf(k, ag.d) < 0
                                             THEN ag.scale_left
                                             ELSE ag.scale_right)),
                         NoWeights, m.kwargs)
    IN  StepsOf(r.heap, r.m,
                EnterRefine(0, View(r.heap, r.m), ag.target_d, ag.maxiter,
                            "aggregate"), n)

\* The mask of the k-th duplicate after its whole refine, run on its own.
SeqMask(k) ==
    LET s == SeqMember(k, MaxIter + 2) IN s.heap[s.m.w]

RECURSIVE SeqConsensus(_, _)
\* Lines 34-36 over the masks of the duplicates refined one after another.
SeqConsensus(w, k) ==
    IF k > 2 * ag.d THEN w
    ELSE SeqConsensus(Consensus(w, SeqMask(k)), k + 1)

\* C18: while the duplicates are refined as interleaved tasks the base model
\* stays as it was at the call, every duplicate is in the state it has after
\* the same number of passes run on its own, and the consensus mask computed
\* after the join is the one of the duplicates refined one after another.
C18_MembersIndependent ==
    par.pc # "off" =>
        /\ View(heap, obj[ag.model]) = ag.pre
        /\ \A k \in 1..Len(par.mem) :
             par.mem[k] # 0 =>
                LET s == SeqMember(k, par.steps[k])
                IN  /\ View(heap, obj[par.mem[k]]) = View(s.heap, s.m)
                    /\ par.fr[k].active = s.f.active
                    /\ par.fr[k].result = s.f.result
        /\ par.pc = "joined" =>
             /\ \A k \in 1..Len(par.mem) :
                  heap[obj[par.mem[k]].w] = SeqMask(k)
             /\ heap[ag.w] = SeqConsensus(ag.pre.w, 1)

\* A join after tasks that interleaved: the second duplicate was constructed
\* before the first, both replaced their mask, and the consensus masks a
\* sample.
C18_Witness ==
    /\ par.pc = "joined"
    /\ par.mem[2] < par.mem[1]
    /\ \A k \in 1..Len(par.mem) : par.fr[k].niter > 0
    /\ \E i \in 1..Len(heap[ag.w]) : heap[ag.w][i] = 0 /\ ag.pre.w[i] # 0

\* ------------------------------------------------------------------------
\* C19
\* ------------------------------------------------------------------------

\* C19: in every state the spline and the in-sample predictions of every
\* instance are the fit of the mask the instance holds, also after a
\* replace_mask in which the kernel raised.
C19_FitMatchesMask ==
    \A id \in 1..Len(obj) :
        LET m == obj[id]
            fit == LSQUnivariateSpline(m.t, m.y, m.knots, heap[m.w])
        IN  /\ fit.ok
            /\ m.spr = fit.spr
            /\ m.self_pred = Call(m.spr, m.t)

\* ------------------------------------------------------------------------
\* C20
\* ------------------------------------------------------------------------

\* C20: a refine the client calls with target_d < 0 or maxiter <= 0 raises
\* at its assertions: it makes no pass of the loop, evaluates no
\* classification and computes no candidate mask, and when the client is back
\* in control the mask, the spline and the validity flag of the statistic are
\* those at the call.
C20_InvalidArgsRejected ==
    (rf.caller = "top" /\ (rf.target_d < 0 \/ rf.maxiter <= 0)) =>
        /\ rf.outcome = "rejected"
        /\ ~rf.active
        /\ rf.evals = 0 /\ rf.cands = <<>> /\ rf.niter = 0
        /\ (pc = "idle" /\ ret.op = "refine") =>
              /\ ~ret.ok /\ ret.err = "AssertionError"
              /\ View(heap, obj[rf.self]) = rf.pre
              /\ obj[rf.self].stats_dirty = rf.pre_dirty

\* Such a call on a model that has been refined: its mask has outliers and
\* its statistic is valid.
C20_Witness ==
    /\ rf.outcome = "rejected"
    /\ rf.maxiter = 0
    /\ pc = "idle" /\ ret.op = "refine" /\ ~ret.ok
    /\ ~obj[rf.self].stats_dirty
    /\ \E i \in 1..Len(rf.pre.w) : rf.pre.w[i] = 0

====
